---- MODULE Spec2Model ----
(***************************************************************************)
(* Customer feedback analysis (src/app.py): a Flask application that       *)
(* stores reviews with their VADER compound score, extracts product tags,  *)
(* mines association rules over the tag transactions and composes          *)
(* recommendations.                                                        *)
(*                                                                         *)
(* Conventions.  A Python str is a TLA+ string; Chars spells each string   *)
(* of the model character by character, so that lower(), strip(), the      *)
(* substring test `p in text` and sorted() are computed on characters.     *)
(* A compound score is an integer number of ten-thousandths (VADER rounds  *)
(* compound to 4 decimals), so 0.05 is 500.  An optional value is <<>>     *)
(* (None) or <<v>>.  Python positions are 0-based and the positions here   *)
(* are 1-based: Python's idx is idx - 1 here.                              *)
(***************************************************************************)
EXTENDS Integers, Sequences, FiniteSets, TLC

VARIABLES store, sid, response, nPosts, nSeeds, args

vars == <<store, sid, response, nPosts, nSeeds, args>>

(***************************************************************************)
(* Bounds of the model.                                                    *)
(***************************************************************************)
\* accepted give_review POSTs in one behaviour
MaxPosts == 1
\* seed_demo requests in one behaviour
MaxSeeds == 1
\* length of a drawn list of review texts
MaxLen == 2
\* length of the freely drawn head of a drawn transaction list
MaxHead == 2
\* number of copies of the filler transaction after the head
MaxPad == 10
\* number of rows of a drawn reviews table
MaxRows == 3

(***************************************************************************)
(* Strings.                                                                *)
(***************************************************************************)
None == <<>>

Some(v) == <<v>>

Chars ==
  ("delivery" :> <<"d", "e", "l", "i", "v", "e", "r", "y">>) @@
  ("packaging" :> <<"p", "a", "c", "k", "a", "g", "i", "n", "g">>) @@
  ("taste" :> <<"t", "a", "s", "t", "e">>) @@
  ("quality" :> <<"q", "u", "a", "l", "i", "t", "y">>) @@
  ("price" :> <<"p", "r", "i", "c", "e">>) @@
  ("refund" :> <<"r", "e", "f", "u", "n", "d">>) @@
  ("app" :> <<"a", "p", "p">>) @@
  ("support" :> <<"s", "u", "p", "p", "o", "r", "t">>) @@
  ("burger" :> <<"b", "u", "r", "g", "e", "r">>) @@
  ("pizza" :> <<"p", "i", "z", "z", "a">>) @@
  ("fries" :> <<"f", "r", "i", "e", "s">>) @@
  ("sauce" :> <<"s", "a", "u", "c", "e">>) @@
  ("combo" :> <<"c", "o", "m", "b", "o">>) @@
  ("subscription" :> <<"s", "u", "b", "s", "c", "r", "i", "p", "t", "i", "o", "n">>) @@
  ("drink" :> <<"d", "r", "i", "n", "k">>) @@
  ("beverage" :> <<"b", "e", "v", "e", "r", "a", "g", "e">>) @@
  ("good" :> <<"g", "o", "o", "d">>) @@
  ("like" :> <<"l", "i", "k", "e">>) @@
  ("love" :> <<"l", "o", "v", "e">>) @@
  ("wonderful" :> <<"w", "o", "n", "d", "e", "r", "f", "u", "l">>) @@
  ("super" :> <<"s", "u", "p", "e", "r">>) @@
  ("amazing" :> <<"a", "m", "a", "z", "i", "n", "g">>) @@
  ("marvellous" :> <<"m", "a", "r", "v", "e", "l", "l", "o", "u", "s">>) @@
  ("surprised" :> <<"s", "u", "r", "p", "r", "i", "s", "e", "d">>) @@
  ("great" :> <<"g", "r", "e", "a", "t">>) @@
  ("excellent" :> <<"e", "x", "c", "e", "l", "l", "e", "n", "t">>) @@
  ("fantastic" :> <<"f", "a", "n", "t", "a", "s", "t", "i", "c">>) @@
  ("awesome" :> <<"a", "w", "e", "s", "o", "m", "e">>) @@
  ("perfect" :> <<"p", "e", "r", "f", "e", "c", "t">>) @@
  ("hate" :> <<"h", "a", "t", "e">>) @@
  ("bad" :> <<"b", "a", "d">>) @@
  ("poor" :> <<"p", "o", "o", "r">>) @@
  ("disgusting" :> <<"d", "i", "s", "g", "u", "s", "t", "i", "n", "g">>) @@
  ("waste" :> <<"w", "a", "s", "t", "e">>) @@
  ("not happy" :> <<"n", "o", "t", " ", "h", "a", "p", "p", "y">>) @@
  ("don't like" :> <<"d", "o", "n", "'", "t", " ", "l", "i", "k", "e">>) @@
  ("disappointed" :> <<"d", "i", "s", "a", "p", "p", "o", "i", "n", "t", "e", "d">>) @@
  ("awful" :> <<"a", "w", "f", "u", "l">>) @@
  ("not satisfied" :> <<"n", "o", "t", " ", "s", "a", "t", "i", "s", "f", "i", "e", "d">>) @@
  ("horrible" :> <<"h", "o", "r", "r", "i", "b", "l", "e">>) @@
  ("terrible" :> <<"t", "e", "r", "r", "i", "b", "l", "e">>) @@
  ("worst" :> <<"w", "o", "r", "s", "t">>) @@
  ("okay" :> <<"o", "k", "a", "y">>) @@
  ("average" :> <<"a", "v", "e", "r", "a", "g", "e">>) @@
  ("fine" :> <<"f", "i", "n", "e">>) @@
  ("moderate" :> <<"m", "o", "d", "e", "r", "a", "t", "e">>) @@
  ("fair" :> <<"f", "a", "i", "r">>) @@
  ("sufficient" :> <<"s", "u", "f", "f", "i", "c", "i", "e", "n", "t">>) @@
  ("normal" :> <<"n", "o", "r", "m", "a", "l">>) @@
  ("acceptable" :> <<"a", "c", "c", "e", "p", "t", "a", "b", "l", "e">>) @@
  ("regular" :> <<"r", "e", "g", "u", "l", "a", "r">>) @@
  ("standard" :> <<"s", "t", "a", "n", "d", "a", "r", "d">>) @@
  ("routine" :> <<"r", "o", "u", "t", "i", "n", "e">>) @@
  ("usual" :> <<"u", "s", "u", "a", "l">>) @@
  ("ordinary" :> <<"o", "r", "d", "i", "n", "a", "r", "y">>) @@
  ("typical" :> <<"t", "y", "p", "i", "c", "a", "l">>) @@
  ("not sure" :> <<"n", "o", "t", " ", "s", "u", "r", "e">>) @@
  ("perhaps" :> <<"p", "e", "r", "h", "a", "p", "s">>) @@
  ("maybe" :> <<"m", "a", "y", "b", "e">>) @@
  ("decent" :> <<"d", "e", "c", "e", "n", "t">>) @@
  ("not bad" :> <<"n", "o", "t", " ", "b", "a", "d">>) @@
  ("satisfactory" :> <<"s", "a", "t", "i", "s", "f", "a", "c", "t", "o", "r", "y">>) @@
  ("Loved the burger and fries! Great taste and fast delivery." :> <<"L", "o", "v", "e", "d", " ", "t", "h", "e", " ", "b", "u", "r", "g", "e", "r", " ", "a", "n", "d", " ", "f", "r", "i", "e", "s", "!", " ", "G", "r", "e", "a", "t", " ", "t", "a", "s", "t", "e", " ", "a", "n", "d", " ", "f", "a", "s", "t", " ", "d", "e", "l", "i", "v", "e", "r", "y", ".">>) @@
  ("The delivery was late and packaging was bad. Not happy." :> <<"T", "h", "e", " ", "d", "e", "l", "i", "v", "e", "r", "y", " ", "w", "a", "s", " ", "l", "a", "t", "e", " ", "a", "n", "d", " ", "p", "a", "c", "k", "a", "g", "i", "n", "g", " ", "w", "a", "s", " ", "b", "a", "d", ".", " ", "N", "o", "t", " ", "h", "a", "p", "p", "y", ".">>) @@
  ("Quality is amazing. The price is fair. Support team was helpful." :> <<"Q", "u", "a", "l", "i", "t", "y", " ", "i", "s", " ", "a", "m", "a", "z", "i", "n", "g", ".", " ", "T", "h", "e", " ", "p", "r", "i", "c", "e", " ", "i", "s", " ", "f", "a", "i", "r", ".", " ", "S", "u", "p", "p", "o", "r", "t", " ", "t", "e", "a", "m", " ", "w", "a", "s", " ", "h", "e", "l", "p", "f", "u", "l", ".">>) @@
  ("I hate the new app design, it's confusing." :> <<"I", " ", "h", "a", "t", "e", " ", "t", "h", "e", " ", "n", "e", "w", " ", "a", "p", "p", " ", "d", "e", "s", "i", "g", "n", ",", " ", "i", "t", "'", "s", " ", "c", "o", "n", "f", "u", "s", "i", "n", "g", ".">>) @@
  ("Pizza was okay, sauce was great, combo is value for money." :> <<"P", "i", "z", "z", "a", " ", "w", "a", "s", " ", "o", "k", "a", "y", ",", " ", "s", "a", "u", "c", "e", " ", "w", "a", "s", " ", "g", "r", "e", "a", "t", ",", " ", "c", "o", "m", "b", "o", " ", "i", "s", " ", "v", "a", "l", "u", "e", " ", "f", "o", "r", " ", "m", "o", "n", "e", "y", ".">>) @@
  ("Refund process was smooth. Appreciate the quick response." :> <<"R", "e", "f", "u", "n", "d", " ", "p", "r", "o", "c", "e", "s", "s", " ", "w", "a", "s", " ", "s", "m", "o", "o", "t", "h", ".", " ", "A", "p", "p", "r", "e", "c", "i", "a", "t", "e", " ", "t", "h", "e", " ", "q", "u", "i", "c", "k", " ", "r", "e", "s", "p", "o", "n", "s", "e", ".">>) @@
  ("" :> <<>>) @@
  ("   " :> <<" ", " ", " ">>) @@
  (" Great service " :> <<" ", "G", "r", "e", "a", "t", " ", "s", "e", "r", "v", "i", "c", "e", " ">>) @@
  ("Great service" :> <<"G", "r", "e", "a", "t", " ", "s", "e", "r", "v", "i", "c", "e">>) @@
  ("no tags here" :> <<"n", "o", " ", "t", "a", "g", "s", " ", "h", "e", "r", "e">>) @@
  ("GREAT Pizza and Fries" :> <<"G", "R", "E", "A", "T", " ", "P", "i", "z", "z", "a", " ", "a", "n", "d", " ", "F", "r", "i", "e", "s">>) @@
  ("Pizza was okay" :> <<"P", "i", "z", "z", "a", " ", "w", "a", "s", " ", "o", "k", "a", "y">>) @@
  ("I hate it but the app is amazing" :> <<"I", " ", "h", "a", "t", "e", " ", "i", "t", " ", "b", "u", "t", " ", "t", "h", "e", " ", "a", "p", "p", " ", "i", "s", " ", "a", "m", "a", "z", "i", "n", "g">>)

Texts == DOMAIN Chars

\* the string spelled by a character sequence
Str(cs) == CHOOSE t \in Texts : Chars[t] = cs

UpperToLower ==
  ("A" :> "a") @@ ("B" :> "b") @@ ("C" :> "c") @@ ("D" :> "d") @@ ("E" :> "e") @@
  ("F" :> "f") @@ ("G" :> "g") @@ ("H" :> "h") @@ ("I" :> "i") @@ ("J" :> "j") @@
  ("K" :> "k") @@ ("L" :> "l") @@ ("M" :> "m") @@ ("N" :> "n") @@ ("O" :> "o") @@
  ("P" :> "p") @@ ("Q" :> "q") @@ ("R" :> "r") @@ ("S" :> "s") @@ ("T" :> "t") @@
  ("U" :> "u") @@ ("V" :> "v") @@ ("W" :> "w") @@ ("X" :> "x") @@ ("Y" :> "y") @@
  ("Z" :> "z")

\* str.lower(), on the characters of a string
lower(cs) ==
  [i \in 1..Len(cs) |-> IF cs[i] \in DOMAIN UpperToLower THEN UpperToLower[cs[i]] ELSE cs[i]]

Whitespace == {" ", "\t", "\n", "\r"}

\* str.strip(): the string without its leading and trailing whitespace
strip(s) ==
  LET cs == Chars[s]
      keep == {i \in 1..Len(cs) : cs[i] \notin Whitespace}
      first == CHOOSE i \in keep : \A j \in keep : i <= j
      last == CHOOSE i \in keep : \A j \in keep : j <= i
  IN IF keep = {} THEN "" ELSE Str(SubSeq(cs, first, last))

\* Python's `p in text` on strings: p occurs as a contiguous substring
Contains(text, p) ==
  \E i \in 1..(Len(text) - Len(p) + 1) : SubSeq(text, i, i + Len(p) - 1) = p

Alphabet ==
  <<"a", "b", "c", "d", "e", "f", "g", "h", "i", "j", "k", "l", "m",
    "n", "o", "p", "q", "r", "s", "t", "u", "v", "w", "x", "y", "z">>

\* the rank of a lower-case letter in code point order
ord(c) == CHOOSE i \in 1..Len(Alphabet) : Alphabet[i] = c

\* str.__lt__ on two strings of lower-case letters: lexicographic by code point
StrLess(a, b) ==
  LET ca == Chars[a]
      cb == Chars[b]
  IN \E k \in 1..Len(cb) :
       /\ k <= Len(ca) + 1
       /\ \A j \in 1..(k - 1) : ca[j] = cb[j]
       /\ \/ k = Len(ca) + 1
          \/ ord(ca[k]) < ord(cb[k])

\* sorted(list(s)) for a set s of strings
RECURSIVE sorted(_)
sorted(s) ==
  IF s = {} THEN <<>>
  ELSE LET least == CHOOSE x \in s : \A y \in s \ {x} : StrLess(x, y)
       IN <<least>> \o sorted(s \ {least})

Items(row) == {row[i] : i \in DOMAIN row}

(***************************************************************************)
(* Transaction Builder.                                                    *)
(***************************************************************************)
product_list ==
  <<"delivery", "packaging", "taste", "quality", "price", "refund",
    "app", "support", "burger", "pizza", "fries", "sauce", "combo",
    "subscription", "drink", "beverage">>

\* a Transaction Builder that forgets lower()
products_found_case_sensitive ==
  [review \in Texts |->
     SelectSeq(product_list, LAMBDA p : Contains(Chars[review], Chars[p]))]

\* lines 66-67 for one review: the tags found, in product_list order
products_found ==
  [review \in Texts |->
     LET text == lower(Chars[review])
     IN SelectSeq(product_list, LAMBDA p : Contains(text, Chars[p]))]

RECURSIVE extract_products_from_reviews(_)
extract_products_from_reviews(reviews) ==
  IF reviews = <<>> THEN <<>>
  ELSE LET found == products_found[Head(reviews)]
           rest == extract_products_from_reviews(Tail(reviews))
       IN IF found # <<>> THEN <<sorted(Items(found))>> \o rest ELSE rest

(***************************************************************************)
(* Keyword-based recommendation composer.                                  *)
(***************************************************************************)
positive_keywords ==
  <<"good", "like", "love", "wonderful", "super", "amazing",
    "marvellous", "surprised", "great", "excellent", "fantastic",
    "awesome", "perfect">>

negative_keywords ==
  <<"hate", "bad", "poor", "disgusting", "waste", "not happy",
    "don't like", "disappointed", "awful", "not satisfied", "horrible",
    "terrible", "worst">>

neutral_keywords ==
  <<"okay", "average", "fine", "moderate", "fair", "sufficient",
    "normal", "acceptable", "regular", "standard", "routine",
    "usual", "ordinary", "typical", "not sure", "perhaps", "maybe",
    "decent", "not bad", "satisfactory">>

\* The template pools; the typographic apostrophes and dashes of the source
\* are written ' and - here.
positive_recommendations ==
  <<"It's great to see your positive experience! We recommend trying our new flavors as well; they're fantastic!",
    "Since you enjoyed this product, you might also like our complementary items that enhance the experience!",
    "We're glad you loved this! You should check out our loyalty deals for even better value!",
    "Glad to hear you're satisfied! Don't miss our upcoming promotions that might interest you.",
    "Based on your positive review, you might enjoy our subscription service for regular deliveries!">>

negative_recommendations ==
  <<"We appreciate your feedback! Please reach out to our customer service for immediate assistance.",
    "Thanks for sharing your experience. Our troubleshooting guide might offer a quick solution.",
    "Sorry to hear that! Check our FAQs for tips that can help resolve it quickly.",
    "Thanks for your honesty! Stay tuned - we're actively improving this area.",
    "We value your input. Our customer care can offer personalized support.",
    "We're sorry about the experience. Please try our latest update - we're continually improving.">>

neutral_recommendations ==
  <<"Thanks for your balanced feedback! We're working on making things even better.",
    "We appreciate your input. Do check back soon - improvements are always ongoing.",
    "Your thoughts are valuable. Stay tuned for upcoming updates that may enhance your experience.",
    "Thanks for the fair review! We'd love to hear more details to help us improve.",
    "We're glad things were okay! We aim to make them great next time.">>

fallback_recommendation == "Thank you for your feedback! We're always looking to improve."

\* any(keyword in content for keyword in keywords)
AnyKeyword(content, keywords) ==
  \E k \in DOMAIN keywords : Contains(content, Chars[keywords[k]])

\* a classification that checks the negative keywords first
pool_negative_first ==
  [review \in Texts |->
     LET content == lower(Chars[review])
     IN IF AnyKeyword(content, negative_keywords) THEN negative_recommendations
        ELSE IF AnyKeyword(content, positive_keywords) THEN positive_recommendations
        ELSE IF AnyKeyword(content, neutral_keywords) THEN neutral_recommendations
        ELSE <<fallback_recommendation>>]

\* lines 173-181 for one review: the template pool its recommendation is
\* drawn from, or the one-element pool of the fixed message
pool ==
  [review \in Texts |->
     LET content == lower(Chars[review])
     IN IF AnyKeyword(content, positive_keywords) THEN positive_recommendations
        ELSE IF AnyKeyword(content, negative_keywords) THEN negative_recommendations
        ELSE IF AnyKeyword(content, neutral_keywords) THEN neutral_recommendations
        ELSE <<fallback_recommendation>>]

\* random.choice(seq) when the generator's next draw is u: seq[u mod len(seq)]
choice(seq, u) == seq[(u % Len(seq)) + 1]

\* the draws of random.choice reach every template of every pool
RandRange == 0..(Len(negative_recommendations) - 1)

\* draws[i] is the generator's draw while review i is handled
generate_simple_recommendations(reviews, draws) ==
  [i \in 1..Len(reviews) |-> choice(pool[reviews[i]], draws[i])]

(***************************************************************************)
(* Frequent itemsets and association rules (mlxtend), computed exactly.    *)
(* A support, confidence or lift is a fraction <<numerator, denominator>>  *)
(* with a positive denominator.  The floating-point comparisons of the     *)
(* library agree with the exact ones for fewer than 20 transactions, which *)
(* the bounds of the model stay under.                                     *)
(***************************************************************************)
\* min_support=0.1
min_support == <<1, 10>>

\* metric="lift", min_threshold=1
min_threshold == 1

\* x / y
RDiv(x, y) == <<x[1] * y[2], x[2] * y[1]>>

\* x >= y
RGeq(x, y) == x[1] * y[2] >= y[1] * x[2]

\* the one-hot basket (lines 81-82): the item set of every row that has
\* items; stack() drops a row without any
basket(transactions) ==
  [i \in {j \in DOMAIN transactions : transactions[j] # <<>>} |-> Items(transactions[i])]

\* apriori(basket, min_support=0.1, use_colnames=True): every non-empty
\* itemset whose support, the fraction of rows containing it, is >= 0.1
\* an apriori that keeps every itemset that occurs at all
apriori_any_support(b) ==
  LET n == Cardinality(DOMAIN b)
      count(s) == Cardinality({i \in DOMAIN b : s \subseteq b[i]})
      candidates == (UNION {SUBSET b[i] : i \in DOMAIN b}) \ {{}}
  IN [s \in candidates |-> <<count(s), n>>]

\* The frame is the function from its itemsets column to its support column.
apriori(b) ==
  LET n == Cardinality(DOMAIN b)
      count(s) == Cardinality({i \in DOMAIN b : s \subseteq b[i]})
      candidates == (UNION {SUBSET b[i] : i \in DOMAIN b}) \ {{}}
  IN [s \in {c \in candidates : RGeq(<<count(c), n>>, min_support)} |-> <<count(s), n>>]

\* association_rules(frequent_itemsets, metric="lift", min_threshold=1):
\* every split of a frequent itemset of two or more items into a non-empty
\* antecedent and the rest, kept when its lift is >= 1
association_rules(frequent_itemsets) ==
  LET sup(x) == frequent_itemsets[x]
      rule(k, a) ==
        LET c == k \ a
            confidence == RDiv(sup(k), sup(a))
        IN [antecedents |-> a, consequents |-> c, support |-> sup(k),
            confidence |-> confidence, lift |-> RDiv(confidence, sup(c))]
      all == UNION {{rule(k, a) : a \in (SUBSET k) \ {{}, k}} :
                      k \in DOMAIN frequent_itemsets}
  IN {r \in all : RGeq(r.lift, <<min_threshold, 1>>)}

(***************************************************************************)
(* Recommendation composer.                                                *)
(***************************************************************************)
\* the score above which a review counts as positive: 0.05
PositiveThreshold == 500

\* an iteration order of a frozenset of tags: list(s) lists s in one of them
TagOrders ==
  LET up == sorted(Items(product_list))
  IN {up, [i \in 1..Len(up) |-> up[Len(up) + 1 - i]]}

\* list(s) for a frozenset s that iterates in the given order
list(s, order) == SelectSeq(order, LAMBDA x : x \in s)

\* ', '.join(l), as the sequence of its pieces
Join(l) == [i \in 1..(2 * Len(l) - 1) |-> IF i % 2 = 1 THEN l[(i + 1) \div 2] ELSE ", "]

\* any() in the place of all()
MatchesAny(row, antecedents) == \E product \in antecedents : product \in Items(row)

\* all(product in row for product in antecedents)
Matches(row, antecedents) == \A product \in antecedents : product \in Items(row)

\* a clamp that reads one row further
RowReadNext(idx, sentiments) == IF idx + 1 <= Len(sentiments) THEN idx + 1 ELSE Len(sentiments)

\* min(idx, len(sentiments) - 1), in 1-based positions
RowRead(idx, sentiments) == IF idx <= Len(sentiments) THEN idx ELSE Len(sentiments)

\* >= in the place of >
positive_review_inclusive(sentiment) == sentiment.compound >= PositiveThreshold

\* sentiment['compound'] > 0.05
positive_review(sentiment) == sentiment.compound > PositiveThreshold

\* the dict appended at lines 104-111 or 113-120; its three rounded metric
\* fields are not carried
Recommendation(rule, positive, order) ==
  LET antecedents == list(rule.antecedents, order)
      consequents == list(rule.consequents, order)
      text == Join(antecedents) \o <<" -> ">> \o Join(consequents)
  IN IF positive
     THEN [rule |-> text,
           recommended_products |-> Join(consequents),
           sentiment |-> "Positive"]
     ELSE [rule |-> text,
           recommended_products |-> <<"Consider improving ">> \o Join(consequents),
           sentiment |-> "Negative"]

\* a generate_recommendations without the guard of lines 77-78
generate_recommendations_unguarded(transactions, sentiments, order) ==
  LET frequent_itemsets == apriori(basket(transactions))
  IN IF DOMAIN frequent_itemsets = {}
     THEN [apriori_called |-> TRUE, rules_called |-> FALSE, rows |-> <<>>,
           recommendations |-> <<>>]
     ELSE LET rules == association_rules(frequent_itemsets)
              group(idx) ==
                LET sentiment == sentiments[RowRead(idx, sentiments)]
                IN {Recommendation(rule, positive_review(sentiment), order) :
                      rule \in {r \in rules : Matches(transactions[idx], r.antecedents)}}
          IN [apriori_called |-> TRUE, rules_called |-> TRUE,
              rows |-> [idx \in 1..Len(transactions) |-> RowRead(idx, sentiments)],
              recommendations |-> [idx \in 1..Len(transactions) |-> group(idx)]]

\* One run of generate_recommendations.  recommendations[idx] is the set of
\* dicts appended while the outer loop is at transaction idx (the rows of
\* the rules frame are distinct rules); the returned list is these groups
\* one after the other.  apriori_called and rules_called tell whether lines
\* 84 and 88 were reached, rows[idx] is the row of sentiments read at
\* line 95 (0 when the transaction is skipped at line 93).
generate_recommendations(transactions, sentiments, order) ==
  IF transactions = <<>>
  THEN [apriori_called |-> FALSE, rules_called |-> FALSE, rows |-> <<>>,
        recommendations |-> <<>>]
  ELSE LET frequent_itemsets == apriori(basket(transactions))
       IN IF DOMAIN frequent_itemsets = {}
          THEN [apriori_called |-> TRUE, rules_called |-> FALSE, rows |-> <<>>,
                recommendations |-> <<>>]
          ELSE LET rules == association_rules(frequent_itemsets)
                   row(idx) == transactions[idx]
                   group(idx) ==
                     LET sentiment == sentiments[RowRead(idx, sentiments)]
                     IN {Recommendation(rule, positive_review(sentiment), order) :
                           rule \in {r \in rules : Matches(row(idx), r.antecedents)}}
               IN [apriori_called |-> TRUE, rules_called |-> TRUE,
                   rows |-> [idx \in 1..Len(transactions) |->
                               IF Len(row(idx)) = 0 THEN 0
                               ELSE RowRead(idx, sentiments)],
                   recommendations |-> [idx \in 1..Len(transactions) |->
                               IF Len(row(idx)) = 0 THEN {} ELSE group(idx)]]

(***************************************************************************)
(* Chart data.                                                             *)
(***************************************************************************)
\* the score below which a review counts as negative: -0.05
NegativeThreshold == 0 - 500

\* <= in the place of <
label_inclusive(score) ==
  IF score = None THEN "Neutral"
  ELSE IF score[1] > PositiveThreshold THEN "Positive"
  ELSE IF score[1] <= NegativeThreshold THEN "Negative"
  ELSE "Neutral"

label(score) ==
  IF score = None THEN "Neutral"
  ELSE IF score[1] > PositiveThreshold THEN "Positive"
  ELSE IF score[1] < NegativeThreshold THEN "Negative"
  ELSE "Neutral"

\* pd.Series(labels).value_counts(): the count of every label that occurs
value_counts(labels) ==
  [l \in Items(labels) |-> Cardinality({i \in DOMAIN labels : labels[i] = l})]

\* Series.reindex(index): the value at every index entry, absent (NaN) where
\* the series has none
reindex(series, index) ==
  [k \in DOMAIN index |->
     [index |-> index[k],
      value |-> IF index[k] \in DOMAIN series THEN Some(series[index[k]]) ELSE None]]

\* Series.fillna(v)
fillna(series, v) ==
  [k \in DOMAIN series |->
     [index |-> series[k].index,
      value |-> IF series[k].value = None THEN v ELSE series[k].value[1]]]

\* generate_charts, given the rows Review.query.all() returns; counts is the
\* series both charts plot
generate_charts(reviews) ==
  IF reviews = <<>>
  THEN [bar_file |-> None, pie_file |-> None, counts |-> <<>>]
  ELSE LET labels == [i \in DOMAIN reviews |-> label(reviews[i].sentiment_score)]
           counts == fillna(reindex(value_counts(labels),
                                    <<"Positive", "Neutral", "Negative">>), 0)
       IN [bar_file |-> Some("sentiment_bar.png"), pie_file |-> Some("sentiment_pie.png"),
           counts |-> counts]

(***************************************************************************)
(* The routes.  store is the reviews table in insertion order and response *)
(* the last response.  SentimentIntensityAnalyzer is a fixed function of   *)
(* the text, whatever it is: sid holds the compound score of every text    *)
(* scored so far, a text scored again gets the score it has, and a text    *)
(* scored for the first time gets any score of ScorerRange.                *)
(***************************************************************************)
demo_texts ==
  <<"Loved the burger and fries! Great taste and fast delivery.",
    "The delivery was late and packaging was bad. Not happy.",
    "Quality is amazing. The price is fair. Support team was helpful.",
    "I hate the new app design, it's confusing.",
    "Pizza was okay, sauce was great, combo is value for money.",
    "Refund process was smooth. Appreciate the quick response.">>

\* the values of the form field "review" a give_review POST is tried with
FormTexts == {"", "   ", " Great service "}

\* request.form: without the field, or with one of the values
Forms == {[f \in {} |-> ""]} \cup {[review |-> t] : t \in FormTexts}

\* request.form.get(key)
FormGet(form, key) == IF key \in DOMAIN form THEN Some(form[key]) ELSE None

\* (v or "")
OrEmpty(v) == IF v = None THEN "" ELSE v[1]

\* the texts that can be stored, hence scored
Contents == ({strip(t) : t \in FormTexts} \ {""}) \cup Items(demo_texts)

\* the compound scores the scorer is tried with: a negative and a positive one
ScorerRange == {0 - 5000, 5000}

\* the scorers that agree with the scores given so far and score the texts
Scorers(texts) ==
  {f \in [texts \cup DOMAIN sid -> ScorerRange] : \A t \in DOMAIN sid : f[t] = sid[t]}

\* scorer.polarity_scores(text)
polarity_scores(scorer, text) == [compound |-> scorer[text]]

\* analyze_sentiments: the frame of the scores, one row per review
analyze_sentiments(scorer, reviews) ==
  [i \in DOMAIN reviews |-> polarity_scores(scorer, reviews[i])]

\* a Review built without its score
ReviewWithoutScore(table, content, sentiment_score) ==
  [id |-> Len(table) + 1, content |-> content,
   sentiment_score |-> None, created_at |-> Len(table) + 1]

\* Review(content=..., sentiment_score=...) once committed to table: the id
\* is the next one, created_at the position in commit order
Review(table, content, sentiment_score) ==
  [id |-> Len(table) + 1, content |-> content,
   sentiment_score |-> Some(sentiment_score), created_at |-> Len(table) + 1]

NoResponse == [page |-> "none"]

NoArgs == [fn |-> "none"]

Init ==
  /\ store = <<>>
  /\ sid = [t \in {} |-> 0]
  /\ response = NoResponse
  /\ nPosts = 0
  /\ nSeeds = 0
  /\ args = NoArgs

welcome ==
  /\ response' = [page |-> "welcome.html"]
  /\ UNCHANGED <<store, sid, nPosts, nSeeds, args>>

give_review ==
  \E method \in {"GET", "POST"} : \E form \in Forms :
    IF method = "POST"
    THEN LET review == strip(OrEmpty(FormGet(form, "review")))
         IN IF review # ""
            THEN \E scorer \in Scorers({review}) :
                   LET sentiment == polarity_scores(scorer, review).compound
                   IN /\ nPosts < MaxPosts
                      /\ sid' = scorer
                      /\ store' = Append(store, Review(store, review, sentiment))
                      /\ nPosts' = nPosts + 1
                      /\ response' = [page |-> "index.html", sentiment |-> Some(sentiment),
                                      flash |-> "Thank you for your feedback!"]
                      /\ UNCHANGED <<nSeeds, args>>
            ELSE /\ response' = [page |-> "redirect", location |-> "give_review",
                                 flash |-> "Please write a review before submitting."]
                 /\ UNCHANGED <<store, sid, nPosts, nSeeds, args>>
    ELSE /\ response' = [page |-> "index.html", sentiment |-> None, flash |-> ""]
         /\ UNCHANGED <<store, sid, nPosts, nSeeds, args>>

\* the draws of one request's generate_simple_recommendations call: all the
\* least or all the greatest here; every vector of draws is tried under
\* SpecCore
RequestDraws(n) == {[i \in 1..n |-> u] : u \in {0, Len(negative_recommendations) - 1}}

get_recommendations ==
  LET reviews == [i \in DOMAIN store |-> store[i].content]
  IN IF reviews = <<>>
     THEN /\ response' = [page |-> "redirect", location |-> "give_review",
                          flash |-> "Please submit at least one review to get recommendations."]
          /\ UNCHANGED <<store, sid, nPosts, nSeeds, args>>
     ELSE LET sentiments == analyze_sentiments(sid, reviews)
              transactions == extract_products_from_reviews(reviews)
          IN \E order \in TagOrders :
               \E run \in {generate_recommendations(transactions, sentiments, order)} :
                  \E draws \in RequestDraws(Len(reviews)) :
                    /\ response' =
                         [page |-> "recommendations.html",
                          product_recommendations |-> run.recommendations,
                          rows |-> run.rows,
                          simple_recommendations |->
                            generate_simple_recommendations(reviews, draws)]
                    /\ UNCHANGED <<store, sid, nPosts, nSeeds, args>>

\* Review.query.order_by(Review.created_at.desc()).all()
view_stored_reviews ==
  /\ response' = [page |-> "stored_reviews.html",
                  stored_reviews |-> [i \in DOMAIN store |-> store[Len(store) + 1 - i]]]
  /\ UNCHANGED <<store, sid, nPosts, nSeeds, args>>

charts ==
  LET files == generate_charts(store)
  IN /\ response' =
          IF files.bar_file = None
          THEN [page |-> "redirect", location |-> "give_review",
                flash |-> "No data yet. Submit some reviews to see charts!"]
          ELSE [page |-> "charts.html", bar_file |-> files.bar_file[1],
                pie_file |-> files.pie_file[1], counts |-> files.counts]
     /\ UNCHANGED <<store, sid, nPosts, nSeeds, args>>

\* the session after db.session.add of every text of the list, in order
RECURSIVE add_all(_, _, _)
add_all(table, scorer, texts) ==
  IF texts = <<>> THEN table
  ELSE add_all(Append(table, Review(table, Head(texts),
                                    polarity_scores(scorer, Head(texts)).compound)),
               scorer, Tail(texts))

seed_demo ==
  \E scorer \in Scorers(Items(demo_texts)) :
    /\ nSeeds < MaxSeeds
    /\ sid' = scorer
    /\ store' = add_all(store, scorer, demo_texts)
    /\ nSeeds' = nSeeds + 1
    /\ response' = [page |-> "redirect", location |-> "view_stored_reviews", flash |-> "Seeded demo reviews."]
    /\ UNCHANGED <<nPosts, args>>

Next ==
  \/ welcome
  \/ give_review
  \/ get_recommendations
  \/ view_stored_reviews
  \/ charts
  \/ seed_demo

Spec == Init /\ [][Next]_vars

(***************************************************************************)
(* The functions of the pipeline on their own: args is one call's          *)
(* arguments, drawn at the start, and response what the call returns.      *)
(***************************************************************************)
Repeat(x, k) == [i \in 1..k |-> x]

\* the sequences over s of length at most k
SeqUpTo(s, k) == UNION {[1..n -> s] : n \in 0..k}

\* the review texts a drawn list is made of
ReviewPool ==
  {"no tags here", "GREAT Pizza and Fries", "not bad", "Pizza was okay",
   "I hate it but the app is amazing", demo_texts[2]}

ReviewsArgs == {[fn |-> "reviews", reviews |-> r] : r \in SeqUpTo(ReviewPool, MaxLen)}

\* the transactions a drawn transaction list is made of
TransPool ==
  {<<"app">>, <<"delivery", "packaging">>, <<"app", "delivery", "packaging">>}

\* the compound scores of the head of a drawn sentiments frame
HeadScores == {0 - 5000, 500, 501}

\* the numbers of copies of the filler: few, or close to MaxPad
Pads == {p \in 0..MaxPad : p <= 1 \/ p >= MaxPad - 1}

\* a head, then pad copies of a filler; the frame has a row for every
\* transaction and extra rows after them, as for reviews without a tag; the
\* rows after the head score 0
MiningArgs ==
  {[fn |-> "mining",
    transactions |-> head \o Repeat(filler, pad),
    sentiments |-> [i \in 1..(Len(head) + pad + extra) |->
                      [compound |-> IF i <= Len(head) THEN scores[i] ELSE 0]]] :
     head \in SeqUpTo(TransPool, MaxHead), filler \in TransPool, pad \in Pads,
     extra \in 0..1, scores \in [1..MaxHead -> HeadScores]}

\* one single-tag transaction for each of the first k tags of product_list
SinglesArgs ==
  {[fn |-> "mining",
    transactions |-> [i \in 1..k |-> <<product_list[i]>>],
    sentiments |-> [i \in 1..k |-> [compound |-> 0]]] :
     k \in {j \in 0..(MaxPad + 1) : j <= Len(product_list)}}

\* the stored scores a drawn reviews table is made of: the column is nullable
StoredScores == {None} \cup {Some(v) : v \in {0 - 5000, 0 - 501, 0 - 500, 0, 500, 501, 5000}}

ChartsArgs ==
  {[fn |-> "charts",
    table |-> [i \in 1..n |-> [id |-> i, content |-> "Great service",
                                 sentiment_score |-> scores[i], created_at |-> i]]] :
     n \in 0..MaxRows, scores \in [1..MaxRows -> StoredScores]}

InitCore ==
  /\ store = <<>>
  /\ sid = [t \in {} |-> 0]
  /\ response = NoResponse
  /\ nPosts = 0
  /\ nSeeds = 0
  /\ args \in ReviewsArgs \cup MiningArgs \cup SinglesArgs \cup ChartsArgs

call_extract_products_from_reviews ==
  /\ args.fn = "reviews"
  /\ response = NoResponse
  /\ response' = [page |-> "returned", of |-> "extract_products_from_reviews",
                  transactions |-> extract_products_from_reviews(args.reviews)]
  /\ UNCHANGED <<store, sid, nPosts, nSeeds, args>>

call_generate_simple_recommendations ==
  /\ args.fn = "reviews"
  /\ response = NoResponse
  /\ \E draws \in [1..Len(args.reviews) -> RandRange] :
       response' = [page |-> "returned", of |-> "generate_simple_recommendations",
                    selected_recommendations |->
                      generate_simple_recommendations(args.reviews, draws)]
  /\ UNCHANGED <<store, sid, nPosts, nSeeds, args>>

call_generate_recommendations ==
  /\ args.fn = "mining"
  /\ response = NoResponse
  /\ \E order \in TagOrders :
       response' = [page |-> "returned", of |-> "generate_recommendations",
                    run |-> generate_recommendations(args.transactions, args.sentiments, order)]
  /\ UNCHANGED <<store, sid, nPosts, nSeeds, args>>

call_generate_charts ==
  /\ args.fn = "charts"
  /\ response = NoResponse
  /\ response' = [page |-> "returned", of |-> "generate_charts",
                  files |-> generate_charts(args.table)]
  /\ UNCHANGED <<store, sid, nPosts, nSeeds, args>>

NextCore ==
  \/ call_extract_products_from_reviews
  \/ call_generate_simple_recommendations
  \/ call_generate_recommendations
  \/ call_generate_charts

SpecCore == InitCore /\ [][NextCore]_vars

(***************************************************************************)
(* Properties.                                                             *)
(***************************************************************************)
\* the last response is what a call of fn returned
Returned(fn) == response.page = "returned" /\ response.of = fn

\* the dicts a run appended for transaction idx
GroupAt(run, idx) == IF run.recommendations = <<>> THEN {} ELSE run.recommendations[idx]

\* the rules frame of a transaction list
MinedRules(transactions) ==
  IF transactions = <<>> THEN {} ELSE association_rules(apriori(basket(transactions)))

\* the two sides of the "rule" text of a recommendation
ArrowAt(text) == CHOOSE k \in DOMAIN text : text[k] = " -> "

TagsIn(pieces) == {pieces[i] : i \in DOMAIN pieces} \ {", "}

AntecedentOf(rec) == TagsIn(SubSeq(rec.rule, 1, ArrowAt(rec.rule) - 1))

ConsequentText(rec) == SubSeq(rec.rule, ArrowAt(rec.rule) + 1, Len(rec.rule))

ConsequentOf(rec) == TagsIn(ConsequentText(rec))

\* tags separated by ", "
IsCommaJoined(text) ==
  /\ Len(text) % 2 = 1
  /\ \A i \in DOMAIN text :
       IF i % 2 = 0 THEN text[i] = ", " ELSE text[i] \in Items(product_list)

\* the number of transactions of t that contain every tag of x
CountOver(t, x) == Cardinality({i \in DOMAIN t : x \subseteq Items(t[i])})

\* no non-empty itemset is in a tenth of the transactions of t
NoFrequentItemset(t) ==
  \A i \in DOMAIN t : \A x \in (SUBSET Items(t[i])) \ {{}} : 10 * CountOver(t, x) < Len(t)

\* the vocabulary tags that occur in the lower-cased text
TagsOccurring ==
  [text \in Texts |->
     {p \in Items(product_list) : Contains(lower(Chars[text]), Chars[p])}]

\* the positions of the texts in which a tag occurs, and the k-th of them
Kept(reviews) == {i \in DOMAIN reviews : TagsOccurring[reviews[i]] # {}}

KthKept(reviews, k) ==
  CHOOSE i \in Kept(reviews) : Cardinality({j \in Kept(reviews) : j <= i}) = k

\* the keywords of a list that occur in the lower-cased text
KeywordsIn(keywords) ==
  [text \in Texts |->
     {k \in Items(keywords) : Contains(lower(Chars[text]), Chars[k])}]

PositiveIn == KeywordsIn(positive_keywords)

NegativeIn == KeywordsIn(negative_keywords)

NeutralIn == KeywordsIn(neutral_keywords)

ExpectedPool(text) ==
  IF PositiveIn[text] # {} THEN Items(positive_recommendations)
  ELSE IF NegativeIn[text] # {} THEN Items(negative_recommendations)
  ELSE IF NeutralIn[text] # {} THEN Items(neutral_recommendations)
  ELSE {fallback_recommendation}

StoredContents == [i \in DOMAIN store |-> store[i].content]

\* C1: generate_recommendations emits, for every transaction and every mined
\* rule, exactly one recommendation when the rule's antecedent is a subset of
\* the transaction's tags and none when it is not, and nothing else.
C1_OnePerMatchingPair ==
  Returned("generate_recommendations") =>
    LET t == args.transactions
        rules == MinedRules(t)
    IN \A idx \in DOMAIN t :
         /\ \A r \in rules :
              Cardinality({rec \in GroupAt(response.run, idx) :
                             /\ AntecedentOf(rec) = r.antecedents
                             /\ ConsequentOf(rec) = r.consequents})
                = IF r.antecedents \subseteq Items(t[idx]) THEN 1 ELSE 0
         /\ \A rec \in GroupAt(response.run, idx) :
              \E r \in rules : /\ AntecedentOf(rec) = r.antecedents
                               /\ ConsequentOf(rec) = r.consequents

\* a run in which a mined rule matches one transaction and not another
C1_Witness ==
  /\ Returned("generate_recommendations")
  /\ \E r \in MinedRules(args.transactions) : \E i, j \in DOMAIN args.transactions :
       /\ r.antecedents \subseteq Items(args.transactions[i])
       /\ ~(r.antecedents \subseteq Items(args.transactions[j]))
       /\ GroupAt(response.run, i) # {}

\* C2: in the get_recommendations pipeline, the recommendations of the
\* transaction at position idx are phrased by the score of the review that
\* transaction was derived from, also when earlier reviews without a tag
\* were dropped.
C2_ScoreOfOwnReview ==
  response.page = "recommendations.html" =>
    \A idx \in DOMAIN response.product_recommendations :
      \A rec \in response.product_recommendations[idx] :
        (rec.sentiment = "Positive")
          <=> (sid[StoredContents[KthKept(StoredContents, idx)]] > 500)

\* C3: every recommendation is phrased by the binary split of the aligned
\* compound score at 0.05: above it "Positive" and the comma-joined
\* consequent tags, otherwise "Negative" and "Consider improving " before
\* them; never "Neutral".
C3_BinarySplit ==
  Returned("generate_recommendations") =>
    \A idx \in DOMAIN args.transactions :
      \A rec \in GroupAt(response.run, idx) :
        LET score == args.sentiments[idx].compound
        IN /\ IsCommaJoined(ConsequentText(rec))
           /\ rec.sentiment # "Neutral"
           /\ score > 500 =>
                /\ rec.sentiment = "Positive"
                /\ rec.recommended_products = ConsequentText(rec)
           /\ score <= 500 =>
                /\ rec.sentiment = "Negative"
                /\ rec.recommended_products
                     = <<"Consider improving ">> \o ConsequentText(rec)

\* a run that phrases one transaction at exactly 0.05 and another just above
C3_Witness ==
  /\ Returned("generate_recommendations")
  /\ \E i, j \in DOMAIN args.transactions :
       /\ args.sentiments[i].compound = 500
       /\ args.sentiments[j].compound = 501
       /\ GroupAt(response.run, i) # {}
       /\ GroupAt(response.run, j) # {}

\* C4: extract_products_from_reviews returns, in input order, one
\* transaction for each text in which a vocabulary tag occurs (as a substring
\* of the lower-cased text) and none for the others; each transaction is the
\* duplicate-free ascending list of exactly the tags occurring in its text.
C4_Transactions ==
  Returned("extract_products_from_reviews") =>
    LET reviews == args.reviews
        out == response.transactions
    IN /\ Len(out) = Cardinality(Kept(reviews))
       /\ Len(out) <= Len(reviews)
       /\ \A k \in DOMAIN out :
            /\ out[k] # <<>>
            /\ Items(out[k]) = TagsOccurring[reviews[KthKept(reviews, k)]]
            /\ Items(out[k]) \subseteq Items(product_list)
            /\ \A i, j \in DOMAIN out[k] : i < j => StrLess(out[k][i], out[k][j])

\* a text without a tag is dropped before a text whose tags are found out of
\* order, one of them inside another word
C4_Witness ==
  /\ Returned("extract_products_from_reviews")
  /\ args.reviews = <<"no tags here", demo_texts[2]>>
  /\ response.transactions = <<(<<"app", "delivery", "packaging">>)>>

\* C5: generate_simple_recommendations returns one string per text, in
\* order, from the positive pool if the lower-cased text contains a positive
\* keyword, else from the negative pool if it contains a negative keyword,
\* else from the neutral pool if it contains a neutral keyword, else the
\* fixed message.
C5_PoolByPriority ==
  Returned("generate_simple_recommendations") =>
    /\ Len(response.selected_recommendations) = Len(args.reviews)
    /\ \A i \in DOMAIN args.reviews :
         response.selected_recommendations[i] \in ExpectedPool(args.reviews[i])

\* a list with a text that has a positive and a negative keyword and a text
\* without any keyword
C5_Witness ==
  /\ Returned("generate_simple_recommendations")
  /\ \E i, j \in DOMAIN args.reviews :
       /\ PositiveIn[args.reviews[i]] # {}
       /\ NegativeIn[args.reviews[i]] # {}
       /\ response.selected_recommendations[j] = fallback_recommendation

\* C6: every rule a recommendation is emitted for has a non-empty antecedent
\* and a non-empty consequent, disjoint; their union is in at least a tenth
\* of the transactions; and its lift, support(A u B) / (support(A) *
\* support(B)) over the transaction list, is at least 1.
C6_RuleMetrics ==
  Returned("generate_recommendations") =>
    LET t == args.transactions
    IN \A idx \in DOMAIN t :
         \A rec \in GroupAt(response.run, idx) :
           LET a == AntecedentOf(rec)
               b == ConsequentOf(rec)
           IN /\ a # {}
              /\ b # {}
              /\ a \cap b = {}
              /\ 10 * CountOver(t, a \cup b) >= Len(t)
              /\ CountOver(t, a \cup b) * Len(t) >= CountOver(t, a) * CountOver(t, b)

\* recommendations are emitted although one transaction's tags are together
\* in less than a tenth of the transactions
C6_Witness ==
  /\ Returned("generate_recommendations")
  /\ \E i, j \in DOMAIN args.transactions :
       /\ GroupAt(response.run, i) # {}
       /\ 10 * CountOver(args.transactions, Items(args.transactions[j]))
            < Len(args.transactions)

\* C7: for a non-empty reviews table generate_charts counts, in the order
\* Positive, Neutral, Negative, the scores > 0.05, the scores that are absent
\* or in [-0.05, 0.05], and the scores < -0.05; a label that does not occur
\* counts 0 and the counts sum to the number of reviews.
C7_Counts ==
  (Returned("generate_charts") /\ args.table # <<>>) =>
    LET rows == args.table
        counts == response.files.counts
        expected(score) ==
          IF score = None THEN "Neutral"
          ELSE IF score[1] > 500 THEN "Positive"
          ELSE IF score[1] < 0 - 500 THEN "Negative"
          ELSE "Neutral"
        n(l) == Cardinality({i \in DOMAIN rows : expected(rows[i].sentiment_score) = l})
    IN /\ counts = <<[index |-> "Positive", value |-> n("Positive")],
                     [index |-> "Neutral", value |-> n("Neutral")],
                     [index |-> "Negative", value |-> n("Negative")]>>
       /\ counts[1].value + counts[2].value + counts[3].value = Len(rows)

\* a table with an absent score and a score of exactly -0.05, and no
\* negative one
C7_Witness ==
  /\ Returned("generate_charts")
  /\ \E i, j \in DOMAIN args.table :
       /\ args.table[i].sentiment_score = None
       /\ args.table[j].sentiment_score = Some(0 - 500)
  /\ response.files.counts[3].value = 0
  /\ response.files.counts[2].value >= 2

\* C8: generate_recommendations returns the empty list without calling
\* apriori when the transaction list is empty, and the empty list when no
\* itemset is frequent; generate_simple_recommendations returns the empty
\* list for no reviews.
C8_EmptyResults ==
  /\ Returned("generate_recommendations") =>
       /\ args.transactions = <<>> =>
            /\ response.run.recommendations = <<>>
            /\ ~response.run.apriori_called
       /\ NoFrequentItemset(args.transactions) =>
            \A idx \in DOMAIN args.transactions : GroupAt(response.run, idx) = {}
  /\ Returned("generate_simple_recommendations") =>
       (args.reviews = <<>> => response.selected_recommendations = <<>>)

\* transactions, none of whose itemsets is frequent: apriori ran, no rule
\* was asked for and nothing is recommended
C8_Witness ==
  /\ Returned("generate_recommendations")
  /\ args.transactions # <<>>
  /\ NoFrequentItemset(args.transactions)
  /\ response.run.apriori_called
  /\ ~response.run.rules_called
  /\ response.run.recommendations = <<>>

\* C9: every stored review has a content that is not empty after trimming
\* and the scorer's compound score of that content; a give_review POST
\* without content leaves the store as it is, and no request changes or
\* removes a stored review.
C9_StoreInv ==
  \A i \in DOMAIN store :
    /\ strip(store[i].content) # ""
    /\ store[i].sentiment_score # None
    /\ store[i].sentiment_score = Some(sid[store[i].content])

C9_Step ==
  /\ (/\ response'.page = "redirect"
      /\ response'.flash = "Please write a review before submitting.") => store' = store
  /\ \A i \in DOMAIN store : i \in DOMAIN store' /\ store'[i] = store[i]

C9_Store == [](C9_StoreInv) /\ [][C9_Step]_vars

\* a POST without content was just refused, after a POST whose content was
\* trimmed and a seed_demo
C9_Witness ==
  /\ response.page = "redirect"
  /\ response.flash = "Please write a review before submitting."
  /\ Len(store) > Len(demo_texts)
  /\ \E i \in DOMAIN store : store[i].content = "Great service"

\* C10: in the get_recommendations pipeline the sentiments frame has a row
\* per review, the transactions are no more than the reviews, and the row
\* read for the transaction at position idx is row idx: the clamp never
\* takes effect.
C10_ClampIdle ==
  response.page = "recommendations.html" =>
    /\ Len(analyze_sentiments(sid, StoredContents)) = Len(store)
    /\ Len(extract_products_from_reviews(StoredContents)) <= Len(store)
    /\ \A idx \in DOMAIN response.rows :
         /\ idx <= Len(store)
         /\ response.rows[idx] = idx

\* a request whose transactions are fewer than the reviews
C10_Witness ==
  /\ response.page = "recommendations.html"
  /\ response.rows # <<>>
  /\ Len(response.rows) < Len(store)

====
